---- MODULE Spec2Model ----
(***************************************************************************)
(* Pixiv client library: the paginated fetch generator (_call_api driven   *)
(* by the get_* endpoint functions), the page validation helpers and the   *)
(* token renewal that every request model performs before its request.     *)
(*                                                                         *)
(* Two revisions of the api package live in the repository and both are    *)
(* modelled; `variant` selects one:                                        *)
(*   "pixiv"   : pixiv/api/api.py, endpoint functions decorated with       *)
(*               generate_data (key + type validation, errors wrapped in   *)
(*               ApiError)                                                 *)
(*   "pixivpy" : pixivpy/api/api.py, endpoint functions with an inline     *)
(*               loop (key check only, errors raised as they are)          *)
(* A transport call is one invocation of the endpoint's request model      *)
(* (api_model called with the kwargs dict in _call_api).                   *)
(***************************************************************************)
EXTENDS Integers, Sequences, FiniteSets, TLC

\* ------------------------------------------------------------------ bounds
MaxCalls == 2        \* invocations of the request model per fetch sequence
MaxPageLen == 2      \* records per page
MaxTime == 1         \* clock values 0..MaxTime
MaxTtl == 2          \* largest 'expires_in' of an auth response

\* ------------------------------------------------------- program constants
SeedCount == 20      \* get_related: range(0, 20)
ExpectedCode == 200  \* @request(expected_code=200)

\* ------------------------------------------------------------- Python data
NoneVal == "<None>"          \* Python None (the string 'None' is "None")
FirstRun == "first_run"      \* sentinel _call_api starts with
Vals == {"42"}               \* non-blank value of a well-formed query

Variants == {"pixiv", "pixivpy"}
Endpoints == {"get_bookmark_tags", "get_bookmarks", "get_illust_comments",
              "get_recommended", "get_articles", "get_related", "get_rankings"}

\* Endpoint functions that take an `offset` argument from the caller.
TakesOffset == {"get_bookmark_tags", "get_illust_comments", "get_recommended",
                "get_rankings"}
CallerOffsets(e) == IF e \in TakesOffset THEN {NoneVal, "7"} ELSE {NoneVal}

\* Python str(): str(None) is the four-character string 'None'.
str(x) == IF x = NoneVal THEN "None" ELSE x

SeedKey(i) == "seed_illust_ids[" \o ToString(i) \o "]"

\* list_key of each endpoint.
list_key(e) ==
    CASE e = "get_bookmark_tags"   -> "bookmark_tags"
      [] e = "get_illust_comments" -> "comments"
      [] e = "get_articles"        -> "spotlight_articles"
      [] OTHER                     -> "illusts"

\* param_keys handed to _call_api, in the order the code iterates them.
param_keys(e) ==
    CASE e = "get_bookmark_tags"   -> <<"offset">>
      [] e = "get_bookmarks"       -> <<"max_bookmark_id">>
      [] e = "get_illust_comments" -> <<"offset">>
      [] e = "get_recommended"     -> <<"min_bookmark_id_for_recent_illust",
                                        "max_bookmark_id_for_recommend", "offset">>
      [] e = "get_articles"        -> <<"offset">>
      [] e = "get_related"         -> [i \in 1..SeedCount |-> SeedKey(i - 1)]
      [] e = "get_rankings"        -> <<"mode", "offset", "filter">>

Range(s) == {s[i] : i \in 1..Len(s)}
KeySet(e) == Range(param_keys(e))

\* Build a dict from a set of (key, value) pairs.
Dict(pairs) == [k \in {p[1] : p \in pairs} |-> (CHOOSE p \in pairs : p[1] = k)[2]]

\* kwargs dict each endpoint function hands to _call_api.
InitKwargs(v, e, offset) ==
    CASE e = "get_bookmark_tags" ->
            Dict({<<"user_id", "12345">>, <<"restrict", "public">>,
                  <<"offset", offset>>, <<"auth_token", "auth_token">>})
      [] e = "get_bookmarks" ->
            Dict({<<"user_id", "12345">>, <<"restrict", "public">>,
                  <<"max_bookmark_id", NoneVal>>, <<"tag", NoneVal>>,
                  <<"auth_token", "auth_token">>})
      [] e = "get_illust_comments" ->
            Dict({<<"illust_id", "12345">>, <<"offset", str(offset)>>,
                  <<"auth_token", "auth_token">>})
      [] e = "get_recommended" /\ v = "pixiv" ->
            Dict({<<"filter", "for_android">>, <<"include_ranked", "true">>,
                  <<"include_privacy", "true">>,
                  <<"min_bookmark_id_for_recent_illust", NoneVal>>,
                  <<"max_bookmark_id_for_recommend", NoneVal>>,
                  <<"offset", offset>>, <<"auth_token", "auth_token">>})
      [] e = "get_recommended" /\ v = "pixivpy" ->
            Dict({<<"filter", "for_android">>, <<"include_ranking_illusts", "True">>,
                  <<"include_privacy_policy", "True">>,
                  <<"min_bookmark_id_for_recent_illust", NoneVal>>,
                  <<"max_bookmark_id_for_recommend", NoneVal>>,
                  <<"offset", offset>>, <<"auth_token", "auth_token">>})
      [] e = "get_articles" ->
            Dict({<<"filter", "for_android">>, <<"category", "all">>,
                  <<"auth_token", "auth_token">>})
      [] e = "get_related" ->
            Dict({<<"filter", "for_android">>, <<"illust_id", "12345">>,
                  <<"auth_token", "auth_token">>})
      [] e = "get_rankings" ->
            Dict({<<"filter", "for_android">>, <<"mode", "day">>,
                  <<"offset", offset>>, <<"auth_token", "auth_token">>})

\* Parameter names of each request model (all required, none defaulted).
ModelParams(e) ==
    CASE e = "get_bookmark_tags"   -> {"user_id", "restrict", "offset", "auth_token"}
      [] e = "get_bookmarks"       -> {"user_id", "restrict", "max_bookmark_id", "tag",
                                       "auth_token"}
      [] e = "get_illust_comments" -> {"illust_id", "offset", "auth_token"}
      [] e = "get_recommended"     -> {"filter", "include_ranked", "include_privacy",
                                       "min_bookmark_id_for_recent_illust",
                                       "max_bookmark_id_for_recommend", "offset",
                                       "auth_token"}
      [] e = "get_articles"        -> {"filter", "category", "auth_token"}
      [] e = "get_related"         -> {"filter", "illust_id", "auth_token"}
      [] e = "get_rankings"        -> {"filter", "mode", "offset", "auth_token"}

\* Python call api_model called with kwargs: TypeError unless the names match.
AcceptsKwargs(e, kw) == DOMAIN kw = ModelParams(e)

\* ------------------------------------------------------ continuation URLs
\* The query string of a next_url: for every continuation name the values
\* it carries, in order of appearance ("" is a blank value, <<>> no value).
FirstKey(e) == param_keys(e)[1]
LastKey(e) == param_keys(e)[Len(param_keys(e))]
Uniform(e, vs) == [k \in KeySet(e) |-> vs]
WithAlt(e, base, k, alt) == [n \in KeySet(e) |-> IF n = k THEN alt ELSE <<base>>]
NoQuery(e) == Uniform(e, <<>>)

Queries(e) ==
    {Uniform(e, <<v>>) : v \in Vals}
    \cup {WithAlt(e, "42", LastKey(e), <<"", "7">>),      \* blank value first
          WithAlt(e, "42", FirstKey(e), <<"7", "42">>),   \* name given twice
          WithAlt(e, "7", LastKey(e), <<>>),              \* name missing
          WithAlt(e, "7", FirstKey(e), <<"">>),           \* blank value only
          NoQuery(e)}

NonBlank(x) == x # ""

\* urllib.parse.parse_qs (keep_blank_values=False): name -> list of its
\* non-blank values in order; names left without a value are not keys.
parse_qs(query) ==
    LET names == {k \in DOMAIN query : SelectSeq(query[k], NonBlank) # <<>>}
    IN  [k \in names |-> SelectSeq(query[k], NonBlank)]

\* Variation: the last value of the name is taken instead of the first.
LastOf(values) == values[Len(values)]

\* parse_qs(parsed.query)[param_key][0]
FirstOf(values) == values[1]

\* Variation: writing one entry clears the others.
Put_Reset(kw, k, v) == [n \in (DOMAIN kw) \cup {k} |-> IF n = k THEN v ELSE NoneVal]

\* kwargs[param_key] = ...: one entry written, the others kept.
Put(kw, k, v) == [n \in (DOMAIN kw) \cup {k} |-> IF n = k THEN v ELSE kw[n]]

\* for param_key in param_keys: kwargs[param_key] = parse_qs(...)[param_key][0]
\* A missing name raises KeyError with the earlier names already written.
RECURSIVE UpdateKwargs(_, _, _, _)
UpdateKwargs(kw, keys, i, parsed) ==
    IF i > Len(keys) THEN [ok |-> TRUE, kwargs |-> kw]
    ELSE IF keys[i] \notin DOMAIN parsed THEN [ok |-> FALSE, kwargs |-> kw]
    ELSE UpdateKwargs(Put(kw, keys[i], FirstOf(parsed[keys[i]])), keys, i + 1, parsed)

\* ------------------------------------------------------- server responses
\* Value mapped to list_key: its JSON type and, for iterable values, how
\* many elements iterating it gives (records of a list, characters of a
\* string, keys of an object).
ListVals ==
    {[type |-> "list", len |-> n] : n \in 0..MaxPageLen}
    \cup {[type |-> "absent", len |-> 0], [type |-> "null", len |-> 0],
          [type |-> "int", len |-> 0], [type |-> "str", len |-> 1],
          [type |-> "dict", len |-> 1]}

NextVals(e) ==
    {[kind |-> k, query |-> NoQuery(e)] : k \in {"absent", "null", "empty", FirstRun}}
    \cup {[kind |-> "url", query |-> q] : q \in Queries(e)}

StatusCodes == {ExpectedCode, 403}

\* JSON bodies a server may answer with: lists of every length with a plain
\* next_url (none, or a well-formed URL), a one-record list with every kind
\* of next_url, and every non-list value with no next_url or a URL that
\* lacks a continuation name.
PlainNextVals(e) ==
    {[kind |-> "null", query |-> NoQuery(e)],
     [kind |-> "url", query |-> Uniform(e, <<"42">>)]}

BadListNextVals(e) ==
    {[kind |-> "null", query |-> NoQuery(e)],
     [kind |-> "url", query |-> WithAlt(e, "7", LastKey(e), <<>>)]}

Bodies(e) ==
    {[list |-> l, next |-> n] : l \in {x \in ListVals : x.type = "list"},
                                n \in PlainNextVals(e)}
    \cup {[list |-> [type |-> "list", len |-> 1], next |-> n] : n \in NextVals(e)}
    \cup {[list |-> l, next |-> n] : l \in {x \in ListVals : x.type # "list"},
                                     n \in BadListNextVals(e)}

\* What one request gives: the HTTP collaborator raises, or returns a status
\* and a JSON body.
Responses(e) ==
    {[outcome |-> "raise", status |-> 0, list |-> [type |-> "absent", len |-> 0],
      next |-> [kind |-> "absent", query |-> NoQuery(e)]]}
    \cup {[outcome |-> "http", status |-> c, list |-> [type |-> "absent", len |-> 0],
           next |-> [kind |-> "absent", query |-> NoQuery(e)]] :
            c \in StatusCodes \ {ExpectedCode}}
    \cup {[outcome |-> "http", status |-> ExpectedCode, list |-> b.list,
           next |-> b.next] : b \in Bodies(e)}

Terminal(next) == next.kind \in {"absent", "null", "empty"}
WellFormedNext(e, next) ==
    \/ Terminal(next)
    \/ next.kind = "url" /\ KeySet(e) \subseteq DOMAIN parse_qs(next.query)
WellFormedPage(e, r) == r.list.type = "list" /\ WellFormedNext(e, r.next)

\* ----------------------------------------------------------- auth tokens
\* Variation: the two token strings end up in each other's field.
AuthToken_Swapped(access_token, refresh_token, ttl, t) ==
    [access_token |-> refresh_token, refresh_token |-> access_token,
     ttl |-> ttl, expires_at |-> t + ttl]

\* Variation: the constructor leaves ttl out of expires_at.
AuthToken_NoTtl(access_token, refresh_token, ttl, t) ==
    [access_token |-> access_token, refresh_token |-> refresh_token,
     ttl |-> ttl, expires_at |-> t]

\* AuthToken.__init__ with expires_at left out: expires_at is the clock value
\* t read in the constructor plus ttl.
AuthToken(access_token, refresh_token, ttl, t) ==
    [access_token |-> access_token, refresh_token |-> refresh_token,
     ttl |-> ttl, expires_at |-> t + ttl]

NoToken == [access_token |-> NoneVal, refresh_token |-> NoneVal, ttl |-> 0,
            expires_at |-> 0]

\* A JSON value of an auth response: its type and what it holds ("absent":
\* the key is not there).
JsonStr(x) == [type |-> "str", str |-> x, int |-> 0]
JsonInt(n) == [type |-> "int", str |-> "int:" \o ToString(n), int |-> n]
JsonAbsent == [type |-> "absent", str |-> NoneVal, int |-> 0]

\* Values of 'expires_in' a server may send.
ExpiresIns == (0 - 1)..MaxTtl

\* Body of an auth response: the type of the value under 'response' and the
\* three values inside it.
AuthBody(response, access_token, refresh_token, expires_in) ==
    [response |-> response, access_token |-> access_token,
     refresh_token |-> refresh_token, expires_in |-> expires_in]

AuthBodies ==
    {AuthBody("dict", JsonStr("A1"), JsonStr("R1"), JsonInt(n)) : n \in ExpiresIns}
    \cup {AuthBody(t, JsonStr("A1"), JsonStr("R1"), JsonInt(1)) : t \in {"absent", "str"}}
    \cup {AuthBody("dict", a, JsonStr("R1"), JsonInt(1)) : a \in {JsonAbsent, JsonInt(5)}}
    \cup {AuthBody("dict", JsonStr("A1"), JsonAbsent, JsonInt(1)),
          AuthBody("dict", JsonStr("A1"), JsonStr("R1"), JsonAbsent),
          AuthBody("dict", JsonStr("A1"), JsonStr("R1"), JsonStr("3600"))}

NoBody == AuthBody("absent", JsonAbsent, JsonAbsent, JsonAbsent)

\* What the HTTP collaborator does with an auth request: it raises, or it
\* returns a status and a body.
AuthResponses ==
    {[outcome |-> "raise", status |-> 0, body |-> NoBody]}
    \cup {[outcome |-> "http", status |-> c, body |-> b] :
            c \in StatusCodes \ {ExpectedCode},
            b \in {NoBody, AuthBody("dict", JsonStr("A1"), JsonStr("R1"), JsonInt(1))}}
    \cup {[outcome |-> "http", status |-> ExpectedCode, body |-> b] : b \in AuthBodies}

NoResponse == [outcome |-> "none", status |-> 0, body |-> NoBody]

\* Variation: the body is returned whatever the status.
request_AnyStatus(r) == IF r.outcome = "raise" THEN "RequestException" ELSE "none"

\* request(expected_code).wrapper: the exception the decorated request model
\* raises for response r, "none" when it returns response.json().
request(r) ==
    IF r.outcome = "raise" THEN "RequestException"
    ELSE IF r.status # ExpectedCode THEN "InvalidStatusCode"
    ELSE "none"

\* Exception classes of the library (PixivError / PixivpyError and subclasses).
LibraryErrors == {"ApiError", "AuthError", "InvalidStatusCode", "InvalidJsonResponse",
                  "DataNotFound", "RetryError"}

\* _validate_auth_response: TRUE when no DataNotFound is raised.
validate_auth_response(body) ==
    /\ body.response # "absent"
    /\ body.response = "dict"
    /\ body.access_token.type # "absent"
    /\ body.refresh_token.type # "absent"
    /\ body.expires_in.type # "absent"
    /\ body.access_token.type = "str"
    /\ body.refresh_token.type = "str"
    /\ body.expires_in.type = "int"

\* json['response'][...] three times and AuthToken(...) without validation:
\* the exception Python raises, "none" when the token is built.
ExtractError(body) ==
    IF body.response = "absent" THEN "KeyError"
    ELSE IF body.response # "dict" THEN "TypeError"
    ELSE IF \E f \in {body.access_token, body.refresh_token, body.expires_in} :
               f.type = "absent" THEN "KeyError"
    ELSE IF body.expires_in.type # "int" THEN "TypeError"
    ELSE "none"

\* except PixivError -> AuthError (pixiv/auth); except Exception ->
\* InvalidJsonResponse (pixivpy/auth).
AuthRaise(v, cause) ==
    IF v = "pixiv"
    THEN IF cause \in LibraryErrors THEN "AuthError" ELSE cause
    ELSE "InvalidJsonResponse"

\* Outcome of a call of an auth function.
AuthOutcome(raised, cause, tok, same, sent) ==
    [raised |-> raised, cause |-> cause, token |-> tok, same |-> same, sent |-> sent]

\* Variation: a failed exchange is sent a second time before it is given up.
Exchange_Retry(v, grant, r, t2) ==
    LET cause == IF request(r) # "none" THEN request(r) ELSE "DataNotFound"
    IN  IF request(r) = "none" /\ validate_auth_response(r.body)
        THEN AuthOutcome("none", "none",
                         AuthToken(r.body.access_token.str, r.body.refresh_token.str,
                                   r.body.expires_in.int, t2),
                         FALSE, <<grant>>)
        ELSE AuthOutcome(AuthRaise(v, cause), cause, NoToken, FALSE, <<grant, grant>>)

\* The part get_auth_token and renew_auth_token share: the request model is
\* called (response r), the body validated, and an AuthToken built from it at
\* clock value t2.
Exchange(v, grant, r, t2) ==
    LET status == request(r)
        shape == IF v = "pixiv"
                 THEN IF validate_auth_response(r.body) THEN "none" ELSE "DataNotFound"
                 ELSE ExtractError(r.body)
        cause == IF status # "none" THEN status ELSE shape
    IN  IF cause # "none"
        THEN AuthOutcome(AuthRaise(v, cause), cause, NoToken, FALSE, <<grant>>)
        ELSE AuthOutcome("none", "none",
                         AuthToken(r.body.access_token.str, r.body.refresh_token.str,
                                   r.body.expires_in.int, t2),
                         FALSE, <<grant>>)

\* get_auth_token(email, password)
GetAuthToken(v, r, t2) == Exchange(v, "password", r, t2)

\* Variation: the token still counts as valid at the instant it expires.
Expired_Strict(t, tok) == t > tok.expires_at

\* if time.time() >= auth_token.expires_at:
Expired(t, tok) == t >= tok.expires_at

\* renew_auth_token(auth_token), the clock read t at the expiry test.
RenewAuthToken(v, tok, t, r, t2) ==
    IF Expired(t, tok)
    THEN Exchange(v, "refresh_token", r, t2)
    ELSE AuthOutcome("none", "none", tok, TRUE, <<>>)

\* Variation: the authorization header is built from the token passed in, not
\* from the one renew_auth_token returned.
ApiModel_StaleBearer(v, e, kw, tok, t, authR, t2, r) ==
    LET renew == RenewAuthToken(v, tok, t, authR, t2)
        status == request(r)
    IN  IF ~AcceptsKwargs(e, kw)
        THEN [raised |-> "TypeError", cause |-> "TypeError", returned |-> FALSE,
              bearer |-> NoneVal, sent |-> <<>>]
        ELSE IF renew.raised # "none"
        THEN [raised |-> renew.raised, cause |-> renew.cause, returned |-> FALSE,
              bearer |-> NoneVal, sent |-> renew.sent]
        ELSE [raised |-> status, cause |-> status, returned |-> status = "none",
              bearer |-> tok.access_token, sent |-> Append(renew.sent, "data")]

\* A request model of api/models.py called with kwargs: renew_auth_token on
\* the token passed, then the request (response r) through the request
\* decorator. returned: the model returned a JSON body; bearer: the access
\* token put in the authorization header.
ApiModel(v, e, kw, tok, t, authR, t2, r) ==
    LET renew == RenewAuthToken(v, tok, t, authR, t2)
        status == request(r)
    IN  IF ~AcceptsKwargs(e, kw)
        THEN [raised |-> "TypeError", cause |-> "TypeError", returned |-> FALSE,
              bearer |-> NoneVal, sent |-> <<>>]
        ELSE IF renew.raised # "none"
        THEN [raised |-> renew.raised, cause |-> renew.cause, returned |-> FALSE,
              bearer |-> NoneVal, sent |-> renew.sent]
        ELSE [raised |-> status, cause |-> status, returned |-> status = "none",
              bearer |-> renew.token.access_token, sent |-> Append(renew.sent, "data")]

\* Tokens a caller may hold: expired, expiring at the last clock value, or
\* still valid at every clock value.
Tokens ==
    {[access_token |-> "access", refresh_token |-> "refresh", ttl |-> MaxTime,
      expires_at |-> x] : x \in 0..(MaxTime + 1)}

\* Responses to the request of a data request model, as far as the model
\* looks at them.
DataResponses(e) ==
    {r \in Responses(e) :
        \/ r.outcome = "raise"
        \/ r.status # ExpectedCode
        \/ r.list = [type |-> "list", len |-> 1] /\ r.next.kind = "null"}

\* Answers to the refresh a request model triggers, as far as the model looks
\* at them: it raised, it had another status, its body had no 'response' or
\* an 'access_token' that is not a string, or it gave a token.
RefreshResponses ==
    {r \in AuthResponses :
        r.body \in {NoBody,
                    AuthBody("dict", JsonStr("A1"), JsonStr("R1"), JsonInt(1)),
                    AuthBody("absent", JsonStr("A1"), JsonStr("R1"), JsonInt(1)),
                    AuthBody("dict", JsonInt(5), JsonStr("R1"), JsonInt(1))}}

NoDataResponse(e) ==
    [outcome |-> "none", status |-> 0, list |-> [type |-> "absent", len |-> 0],
     next |-> [kind |-> "absent", query |-> NoQuery(e)]]

\* Credentials the caller logs in with: <<email, password>>.
Credentials == {<<"alice", "pw1">>}
NoCredentials == <<NoneVal, NoneVal>>

\* The form data of a token exchange request, as far as the grant goes
\* (NoneVal: the field is not in the form).
NoForm == [grant_type |-> NoneVal, username |-> NoneVal, password |-> NoneVal,
           refresh_token |-> NoneVal]

\* What the form encoding of an object that is not a string sends: its repr.
ObjectRepr == "<AuthToken object>"

\* auth.models.get_auth_token(username, password): the data of its Request.
GetAuthTokenForm(username, password) ==
    [grant_type |-> "password", username |-> username, password |-> password,
     refresh_token |-> NoneVal]

\* auth.models.renew_auth_token(auth_token): the data of its Request.
\* pixiv/auth/models.py sends auth_token.refresh_token, pixivpy/auth/models.py
\* sends auth_token, which auth.renew_auth_token passes as the AuthToken.
RenewAuthTokenForm(v, auth_token) ==
    [grant_type |-> "refresh_token", username |-> NoneVal, password |-> NoneVal,
     refresh_token |-> IF v = "pixiv" THEN auth_token.refresh_token ELSE ObjectRepr]

\* The form of the exchange a call sent (sent: the grants it sent, in order).
AuthForm(v, sent, tok, cred) ==
    IF sent = <<>> THEN NoForm
    ELSE IF sent[1] = "password" THEN GetAuthTokenForm(cred[1], cred[2])
    ELSE IF sent[1] = "refresh_token" THEN RenewAuthTokenForm(v, tok)
    ELSE NoForm

\* Record of a direct call: what was called, with which token and
\* credentials, at which clock values, what the servers answered, the form of
\* the exchange sent, and the outcome.
Call(name, tok, t, t2, authR, r, out, returned, bearer, cred, form) ==
    [name |-> name, input |-> tok, t |-> t, t2 |-> t2, response |-> authR,
     data |-> r, raised |-> out.raised, cause |-> out.cause, token |-> out.token,
     same |-> out.same, sent |-> out.sent, returned |-> returned, bearer |-> bearer,
     cred |-> cred, form |-> form]

NoCall(e) ==
    Call("none", NoToken, 0, 0, NoResponse, NoDataResponse(e),
         AuthOutcome("none", "none", NoToken, FALSE, <<>>), FALSE, NoneVal,
         NoCredentials, NoForm)

\* ------------------------------------------------------------------ retry
\* Classes a wrapped function may raise: the ones derived from Exception
\* (InvalidStatusCode is a subclass of PixivpyError) and one derived from
\* BaseException only.
ExceptionClasses == {"PixivpyError", "InvalidStatusCode", "KeyError"}
BaseOnly == {"KeyboardInterrupt"}
Raisable == ExceptionClasses \cup BaseOnly

\* An exception object: its class and the invocation that raised it.
Exc(type, attempt) == [type |-> type, attempt |-> attempt]
NoExc == Exc(NoneVal, 0)

\* except Exception as ex:
IsException(type) == type \in ExceptionClasses

\* Variation: every exception caught makes the function retry-able.
Retryable_Any(type, on_exceptions) == TRUE

\* type(ex) in on_exceptions: the class itself is listed (a subclass of a
\* listed class is not).
Retryable(type, on_exceptions) == type \in on_exceptions

\* Variation: the first exception caught is the one raised in the end.
Pop_First(raised) == raised[1]

\* raised.pop(): the last element of the list.
Pop(raised) == raised[Len(raised)]

\* The wrapper's frame: times and on_exceptions of the decorator, the raised
\* list, how far the call is (pc), the invocations of the function made
\* (calls) and what each did (log), and how the wrapper ended: result is the
\* value returned (the function returns the number of the invocation), error
\* the exception raised.
Wrapper(times, on_exceptions) ==
    [times |-> times, on_exceptions |-> on_exceptions, raised |-> <<>>,
     pc |-> "created", calls |-> 0, log |-> <<>>, result |-> 0, error |-> NoExc]

NoRetry == Wrapper(0, {})

\* One pass of `for _ in range(times)` in which the function returns.
RetryReturn(w) ==
    [w EXCEPT !.calls = @ + 1, !.log = Append(@, "return"), !.pc = "returned",
              !.result = w.calls + 1]

\* One pass of the loop in which the function raises an exception of class
\* type; after the last pass the loop ends and raised.pop() is raised.
RetryRaise(w, type) ==
    LET n == w.calls + 1
        ex == Exc(type, n)
        called == [w EXCEPT !.calls = n, !.log = Append(@, type)]
        caught == [called EXCEPT !.raised = Append(@, ex)]
    IN  IF ~IsException(type)
        THEN [called EXCEPT !.pc = "raised", !.error = ex]
        ELSE IF ~Retryable(type, w.on_exceptions)
        THEN [caught EXCEPT !.pc = "raised", !.error = Exc("RetryError", n)]
        ELSE IF n = w.times
        THEN [caught EXCEPT !.pc = "raised", !.error = Pop(caught.raised),
                            !.raised = SubSeq(@, 1, Len(@) - 1)]
        ELSE [caught EXCEPT !.pc = "loop"]

\* --------------------------------------------------- validation helpers
\* A JSON object as the helpers see it: for each of its keys the Python type
\* of the value mapped to it.
JsonKeys == {"the_key", "not_the_key"}
PyTypes == {"list", "dict", "str", "int", "NoneType"}
JsonDicts == UNION {[ks -> PyTypes] : ks \in SUBSET JsonKeys}

\* validate.response_contains_key(res_json, key): the exception raised,
\* "none" when the helper returns.
validate_response_contains_key(res_json, key) ==
    IF key \notin DOMAIN res_json THEN "DataNotFound" ELSE "none"

\* Variation: any value under the key passes.
validate_response_key_mapping_AnyType(res_json, key, type) ==
    IF key \notin DOMAIN res_json THEN "KeyError" ELSE "none"

\* validate.response_key_mapping(res_json, key, _type): res_json[key] raises
\* KeyError for a missing key; the type of the value is compared with _type.
validate_response_key_mapping(res_json, key, type) ==
    IF key \notin DOMAIN res_json THEN "KeyError"
    ELSE IF type # res_json[key] THEN "DataNotFound"
    ELSE "none"

\* Record of a direct call of a helper; after: res_json once it is over
\* (the helpers read res_json and write nothing).
Validation(fn, res_json, key, type, raised) ==
    [fn |-> fn, res_json |-> res_json, key |-> key, type |-> type,
     raised |-> raised, after |-> res_json]

NoValidation == Validation("none", <<>>, NoneVal, NoneVal, "none")

\* ------------------------------------------------------------------- state
VARIABLES
    variant,       \* which revision of the api package runs
    endpoint,      \* the endpoint function called
    offset,        \* the caller's offset argument
    kwargs,        \* _call_api: the kwargs dict, mutated between requests
    json,          \* _call_api: the json local (last page received)
    pc,            \* position of the generator: INITIAL (created), LOOP (running,
                   \* at the top of _call_api's loop), SUSPENDED (at the yield of
                   \* a record), DONE (exhausted), FAILED (raised)
    idx,           \* position of the inner for loop in the page
    yielded,       \* records handed to the consumer, in order
    callCount,     \* invocations of the request model so far
    cancelled,     \* the consumer stopped pulling
    err,           \* exception raised to the consumer
    now,           \* clock, as last read by renew_auth_token
    token,         \* the AuthToken the caller passed
    served,        \* records the server has put in list pages so far
    terminalSeen,  \* a page without continuation has been received
    chainLen,      \* records served up to and including that page
    malformedSeen, \* a page not matching the endpoint descriptor was received
    last,          \* the last direct call of an auth function or of a request
                   \* model: its inputs and its outcome
    other,         \* a second sequence of the same caller, created with the
                   \* same AuthToken: its own kwargs, json and position
    retry,         \* a call of a function wrapped by retry(times, on_exceptions):
                   \* the wrapper's locals and what it has done so far
    validated      \* the last direct call of a helper of common/validate.py:
                   \* its arguments, its outcome, and res_json after the call

vars == <<variant, endpoint, offset, kwargs, json, pc, idx, yielded, callCount,
          cancelled, err, now, token, served, terminalSeen, chainLen,
          malformedSeen, last, other, retry, validated>>

NoErr == [type |-> "none", cause |-> "none", origin |-> "none"]

\* json = {'next_url': 'first_run'}
FirstRunJson(e) ==
    [list |-> [type |-> "absent", len |-> 0, first |-> 0],
     next |-> [kind |-> FirstRun, query |-> NoQuery(e)]]

\* The endpoint the second sequence was created from, and the generator as
\* the endpoint function returns it: kwargs built, nothing run yet.
OtherEndpoint == "get_illust_comments"
OtherInit(v) ==
    [endpoint |-> OtherEndpoint, kwargs |-> InitKwargs(v, OtherEndpoint, NoneVal),
     json |-> FirstRunJson(OtherEndpoint), pc |-> "INITIAL", yielded |-> 0,
     callCount |-> 0]

Init ==
    /\ variant \in Variants
    /\ endpoint \in Endpoints
    /\ offset \in CallerOffsets(endpoint)
    /\ kwargs = InitKwargs(variant, endpoint, offset)
    /\ json = FirstRunJson(endpoint)
    /\ pc = "INITIAL"
    /\ idx = 0
    /\ yielded = <<>>
    /\ callCount = 0
    /\ cancelled = FALSE
    /\ err = NoErr
    /\ now = 0
    /\ token = [access_token |-> "access", refresh_token |-> "refresh",
                ttl |-> MaxTime, expires_at |-> MaxTime]
    /\ served = 0
    /\ terminalSeen = FALSE
    /\ chainLen = 0
    /\ malformedSeen = FALSE
    /\ last = NoCall(endpoint)
    /\ other = OtherInit(variant)
    /\ retry = NoRetry
    /\ validated = NoValidation

\* ---------------------------------------------------------------- _call_api
\* Variation: the loop makes the first request only.
LoopCond_OnePage(js) == js.next.kind = FirstRun

\* Variation: the loop also ends after a page whose list is empty.
LoopCond_StopOnEmptyPage(js) == js.next.kind = FirstRun \/ js.list.len > 0

\* Variation: the loop is entered only with a continuation URL in hand.
LoopCond_NeedsUrl(js) == js.next.kind = "url"

\* while json['next_url'] is not None or json['next_url'] != "":
LoopCond(js) == js.next.kind # "null" \/ js.next.kind # "empty"

\* if 'next_url' not in json.keys(): json['next_url'] = None
SetDefaultNext(next) ==
    IF next.kind = "absent" THEN [next EXCEPT !.kind = "null"] ELSE next

\* if json['next_url'] is not None and json['next_url'] != ""
\*    and json['next_url'] != 'first_run':
ParsesNext(next) == next.kind # "null" /\ next.kind # "empty" /\ next.kind # FirstRun

\* except ... in _call_api and in the generate_data wrapper: what the consumer
\* sees when `cause` is raised at `origin`.
Raise(v, cause, origin) ==
    IF v = "pixiv"
    THEN [type |-> "ApiError", cause |-> cause, origin |-> origin]
    ELSE [type |-> cause, cause |-> cause, origin |-> origin]

AuthFailure(v) == IF v = "pixiv" THEN "AuthError" ELSE "InvalidJsonResponse"

\* Variation: the page is yielded as received, the continuation being left
\* for after its records.
LoopBody_EmitFirst(v, e, kw, tok, t, refreshOk, r, nserved) ==
    LET page == [list |-> [type |-> r.list.type, len |-> r.list.len,
                           first |-> nserved + 1],
                 next |-> SetDefaultNext(r.next)]
        none == [raised |-> "none", origin |-> "none", received |-> FALSE,
                 json |-> FirstRunJson(e), kwargs |-> kw]
    IN  IF ~AcceptsKwargs(e, kw)
        THEN [none EXCEPT !.raised = "TypeError", !.origin = "kwargs"]
        ELSE IF Expired(t, tok) /\ ~refreshOk
        THEN [none EXCEPT !.raised = AuthFailure(v), !.origin = "auth"]
        ELSE IF r.outcome = "raise"
        THEN [none EXCEPT !.raised = "RequestException", !.origin = "transport"]
        ELSE IF r.status # ExpectedCode
        THEN [none EXCEPT !.raised = "InvalidStatusCode", !.origin = "status"]
        ELSE [raised |-> "none", origin |-> "none", received |-> TRUE,
              json |-> page, kwargs |-> kw]

\* One pass of the loop body from api_model(...) to `yield json`: the model is
\* called with kwargs, renews the token when it has expired, sends the request
\* (response r), and the continuation of the page received is merged into
\* kwargs. raised is "none" when the page is yielded.
LoopBody(v, e, kw, tok, t, refreshOk, r, nserved) ==
    LET page == [list |-> [type |-> r.list.type, len |-> r.list.len,
                           first |-> nserved + 1],
                 next |-> SetDefaultNext(r.next)]
        upd == IF ParsesNext(page.next)
               THEN UpdateKwargs(kw, param_keys(e), 1, parse_qs(page.next.query))
               ELSE [ok |-> TRUE, kwargs |-> kw]
        none == [raised |-> "none", origin |-> "none", received |-> FALSE,
                 json |-> FirstRunJson(e), kwargs |-> kw]
    IN  IF ~AcceptsKwargs(e, kw)
        THEN [none EXCEPT !.raised = "TypeError", !.origin = "kwargs"]
        ELSE IF Expired(t, tok) /\ ~refreshOk
        THEN [none EXCEPT !.raised = AuthFailure(v), !.origin = "auth"]
        ELSE IF r.outcome = "raise"
        THEN [none EXCEPT !.raised = "RequestException", !.origin = "transport"]
        ELSE IF r.status # ExpectedCode
        THEN [none EXCEPT !.raised = "InvalidStatusCode", !.origin = "status"]
        ELSE IF ~upd.ok
        THEN [raised |-> "KeyError", origin |-> "continuation", received |-> TRUE,
              json |-> page, kwargs |-> upd.kwargs]
        ELSE [raised |-> "none", origin |-> "none", received |-> TRUE,
              json |-> page, kwargs |-> upd.kwargs]

\* ------------------------------------------------------------- validation
\* validate.response_contains_key(response, list_key)
response_contains_key(js) == js.list.type # "absent"

\* validate.response_key_mapping(response, list_key, list)
response_key_mapping(js, type) == js.list.type = type

\* iter(response[list_key]) of the inline loop: None and numbers do not iterate.
Iterable(js) == js.list.type \in {"list", "str", "dict"}

\* What iterating response[list_key] gives: the records of a list (numbered as
\* the server numbered them); 0 stands for a character of a string or a key
\* of an object.
Elems(js) ==
    [i \in 1..js.list.len |-> IF js.list.type = "list" THEN js.list.first + i - 1 ELSE 0]

\* Variation: the page is iterated without any check.
PageCheck_Unchecked(v, js) == "none"

\* The page arrives in the endpoint function: the checks made before its
\* inner loop starts ("none": the inner loop runs).
PageCheck(v, js) ==
    IF v = "pixiv"
    THEN IF ~response_contains_key(js) THEN "DataNotFound"
         ELSE IF ~response_key_mapping(js, "list") THEN "DataNotFound"
         ELSE "none"
    ELSE IF ~response_contains_key(js) THEN "InvalidJsonResponse"
         ELSE IF ~Iterable(js) THEN "TypeError"
         ELSE "none"

\* ----------------------------------------------------------------- actions
\* Variation: a generator that has raised can be resumed and goes back to
\* _call_api's loop.
Pull_AfterError ==
    /\ ~cancelled
    /\ pc \in {"INITIAL", "SUSPENDED", "FAILED"}
    /\ IF pc \in {"INITIAL", "FAILED"}
       THEN /\ pc' = "LOOP"
            /\ json' = IF pc = "INITIAL" THEN FirstRunJson(endpoint) ELSE json
            /\ UNCHANGED <<idx, yielded>>
       ELSE /\ json' = json
            /\ IF idx + 1 <= Len(Elems(json))
               THEN /\ pc' = "SUSPENDED"
                    /\ idx' = idx + 1
                    /\ yielded' = Append(yielded, Elems(json)[idx + 1])
               ELSE /\ pc' = "LOOP"
                    /\ UNCHANGED <<idx, yielded>>
    /\ UNCHANGED <<variant, endpoint, offset, kwargs, callCount, cancelled, err,
                   now, token, served, terminalSeen, chainLen, malformedSeen, last, other, retry, validated>>

\* Variation: a resumed generator leaves the rest of the page and goes back
\* to the loop for the next page.
Pull_Prefetch ==
    /\ ~cancelled
    /\ pc \in {"INITIAL", "SUSPENDED"}
    /\ pc' = "LOOP"
    /\ json' = IF pc = "INITIAL" THEN FirstRunJson(endpoint) ELSE json
    /\ UNCHANGED <<variant, endpoint, offset, kwargs, idx, yielded, callCount,
                   cancelled, err, now, token, served, terminalSeen, chainLen,
                   malformedSeen, last, other, retry, validated>>

\* The consumer calls next() on the sequence. The first call starts the
\* generator, which runs into _call_api's loop; a later call resumes the inner
\* for loop, which yields the next record of the page or, the page exhausted,
\* gives control back to _call_api's loop.
Pull ==
    /\ ~cancelled
    /\ pc \in {"INITIAL", "SUSPENDED"}
    /\ IF pc = "INITIAL"
       THEN /\ pc' = "LOOP"
            /\ json' = FirstRunJson(endpoint)
            /\ UNCHANGED <<idx, yielded>>
       ELSE /\ json' = json
            /\ IF idx + 1 <= Len(Elems(json))
               THEN /\ pc' = "SUSPENDED"
                    /\ idx' = idx + 1
                    /\ yielded' = Append(yielded, Elems(json)[idx + 1])
               ELSE /\ pc' = "LOOP"
                    /\ UNCHANGED <<idx, yielded>>
    /\ UNCHANGED <<variant, endpoint, offset, kwargs, callCount, cancelled, err,
                   now, token, served, terminalSeen, chainLen, malformedSeen, last, other, retry, validated>>

\* Variation: calling the endpoint function already runs the loop, so the
\* first request is made without a pull.
call_api_Eager ==
    /\ pc \in {"INITIAL", "LOOP"}
    /\ IF ~LoopCond(json)
       THEN /\ pc' = "DONE"
            /\ UNCHANGED <<kwargs, json, idx, yielded, callCount, err, now, served,
                           terminalSeen, chainLen, malformedSeen>>
       ELSE /\ callCount < MaxCalls
            /\ callCount' = callCount + 1
            /\ \E t \in now..MaxTime, refreshOk \in BOOLEAN, r \in Responses(endpoint) :
                 LET out == LoopBody(variant, endpoint, kwargs, token, t, refreshOk,
                                     r, served)
                     bad == PageCheck(variant, out.json)
                 IN  /\ now' = t
                     /\ kwargs' = out.kwargs
                     /\ json' = IF out.received THEN out.json ELSE json
                     /\ served' = IF out.received /\ r.list.type = "list"
                                  THEN served + r.list.len ELSE served
                     /\ terminalSeen' = (terminalSeen \/ (out.received /\ Terminal(r.next)))
                     /\ chainLen' = IF out.received /\ Terminal(r.next) /\ ~terminalSeen
                                    THEN served' ELSE chainLen
                     /\ malformedSeen' = (malformedSeen \/
                                          (out.received /\ ~WellFormedPage(endpoint, r)))
                     /\ IF out.raised # "none"
                        THEN /\ pc' = "FAILED"
                             /\ err' = Raise(variant, out.raised, out.origin)
                             /\ UNCHANGED <<idx, yielded>>
                        ELSE IF bad # "none"
                        THEN /\ pc' = "FAILED"
                             /\ err' = Raise(variant, bad, "shape")
                             /\ UNCHANGED <<idx, yielded>>
                        ELSE IF Len(Elems(out.json)) >= 1
                        THEN /\ pc' = "SUSPENDED"
                             /\ idx' = 1
                             /\ yielded' = Append(yielded, Elems(out.json)[1])
                             /\ err' = err
                        ELSE /\ pc' = "LOOP"
                             /\ idx' = 0
                             /\ UNCHANGED <<yielded, err>>
    /\ UNCHANGED <<variant, endpoint, offset, cancelled, token, last, other, retry, validated>>

\* The running generator at the top of _call_api's loop: the loop ends, or
\* one request is made and its page goes through the endpoint function's
\* checks up to the yield of its first record.
call_api ==
    /\ pc = "LOOP"
    /\ IF ~LoopCond(json)
       THEN /\ pc' = "DONE"
            /\ UNCHANGED <<kwargs, json, idx, yielded, callCount, err, now, served,
                           terminalSeen, chainLen, malformedSeen>>
       ELSE /\ callCount < MaxCalls
            /\ callCount' = callCount + 1
            /\ \E t \in now..MaxTime, refreshOk \in BOOLEAN, r \in Responses(endpoint) :
                 LET out == LoopBody(variant, endpoint, kwargs, token, t, refreshOk,
                                     r, served)
                     bad == PageCheck(variant, out.json)
                 IN  /\ now' = t
                     /\ kwargs' = out.kwargs
                     /\ json' = IF out.received THEN out.json ELSE json
                     /\ served' = IF out.received /\ r.list.type = "list"
                                  THEN served + r.list.len ELSE served
                     /\ terminalSeen' = (terminalSeen \/ (out.received /\ Terminal(r.next)))
                     /\ chainLen' = IF out.received /\ Terminal(r.next) /\ ~terminalSeen
                                    THEN served' ELSE chainLen
                     /\ malformedSeen' = (malformedSeen \/
                                          (out.received /\ ~WellFormedPage(endpoint, r)))
                     /\ IF out.raised # "none"
                        THEN /\ pc' = "FAILED"
                             /\ err' = Raise(variant, out.raised, out.origin)
                             /\ UNCHANGED <<idx, yielded>>
                        ELSE IF bad # "none"
                        THEN /\ pc' = "FAILED"
                             /\ err' = Raise(variant, bad, "shape")
                             /\ UNCHANGED <<idx, yielded>>
                        ELSE IF Len(Elems(out.json)) >= 1
                        THEN /\ pc' = "SUSPENDED"
                             /\ idx' = 1
                             /\ yielded' = Append(yielded, Elems(out.json)[1])
                             /\ err' = err
                        ELSE /\ pc' = "LOOP"
                             /\ idx' = 0
                             /\ UNCHANGED <<yielded, err>>
    /\ UNCHANGED <<variant, endpoint, offset, cancelled, token, last, other, retry, validated>>

\* Variation: the sequence may be dropped while the generator is running.
DroppedAnyTime == TRUE

\* The consumer holds control whenever the generator is not running.
ConsumerHasControl == pc \in {"INITIAL", "SUSPENDED", "DONE", "FAILED"}

\* The consumer stops pulling from a live sequence (drops or closes it).
Cancel ==
    /\ ConsumerHasControl
    /\ pc \notin {"DONE", "FAILED"}
    /\ ~cancelled
    /\ cancelled' = TRUE
    /\ UNCHANGED <<variant, endpoint, offset, kwargs, json, pc, idx, yielded,
                   callCount, err, now, token, served, terminalSeen, chainLen,
                   malformedSeen, last, other, retry, validated>>

Next == Pull \/ call_api \/ Cancel

Spec == Init /\ [][Next]_vars

\* ------------------------------------------------- direct calls of the layers
\* The auth functions and the request models called directly, one call after
\* the other, by a caller holding `token`; no fetch sequence is running.
fetchVars == <<variant, endpoint, offset, kwargs, json, pc, idx, yielded, callCount,
               cancelled, err, served, terminalSeen, chainLen, malformedSeen>>

RequestInit ==
    /\ variant \in Variants
    /\ endpoint \in Endpoints
    /\ offset \in CallerOffsets(endpoint)
    /\ kwargs = InitKwargs(variant, endpoint, offset)
    /\ json = FirstRunJson(endpoint)
    /\ pc = "INITIAL"
    /\ idx = 0
    /\ yielded = <<>>
    /\ callCount = 0
    /\ cancelled = FALSE
    /\ err = NoErr
    /\ now = 0
    /\ token \in Tokens
    /\ served = 0
    /\ terminalSeen = FALSE
    /\ chainLen = 0
    /\ malformedSeen = FALSE
    /\ last = NoCall(endpoint)
    /\ other = OtherInit(variant)
    /\ retry = NoRetry
    /\ validated = NoValidation

\* auth.get_auth_token(email, password)
get_auth_token ==
    \E t2 \in now..MaxTime, r \in AuthResponses, cred \in Credentials :
        /\ last' = Call("get_auth_token", NoToken, now, t2, r, NoDataResponse(endpoint),
                        GetAuthToken(variant, r, t2), FALSE, NoneVal, cred,
                        AuthForm(variant, <<"password">>, NoToken, cred))
        /\ now' = t2
        /\ UNCHANGED <<fetchVars, token, other, retry, validated>>

\* Variation: the refreshed values are written into the token passed, which
\* is returned.
renew_auth_token_InPlace ==
    \E t \in now..MaxTime, r \in AuthResponses :
        \E t2 \in t..MaxTime :
            LET out == RenewAuthToken(variant, token, t, r, t2)
                sends == out.sent # <<>>
                ok == out.raised = "none"
            IN  /\ last' = Call("renew_auth_token", token, t, IF sends THEN t2 ELSE t,
                                IF sends THEN r ELSE NoResponse,
                                NoDataResponse(endpoint),
                                [out EXCEPT !.same = ok], FALSE, NoneVal,
                                NoCredentials,
                                AuthForm(variant, out.sent, token, NoCredentials))
                /\ now' = IF sends THEN t2 ELSE t
                /\ token' = IF ok THEN out.token ELSE token
                /\ UNCHANGED <<fetchVars, other, retry, validated>>

\* auth.renew_auth_token(token)
renew_auth_token ==
    \E t \in now..MaxTime, r \in AuthResponses :
        \E t2 \in t..MaxTime :
            LET out == RenewAuthToken(variant, token, t, r, t2)
                sends == out.sent # <<>>
            IN  /\ last' = Call("renew_auth_token", token, t, IF sends THEN t2 ELSE t,
                                IF sends THEN r ELSE NoResponse,
                                NoDataResponse(endpoint), out, FALSE, NoneVal,
                                NoCredentials,
                                AuthForm(variant, out.sent, token, NoCredentials))
                /\ now' = IF sends THEN t2 ELSE t
                /\ UNCHANGED <<fetchVars, token, other, retry, validated>>

\* api.models.<endpoint>(... auth_token=token) with the endpoint's kwargs
api_model ==
    \E t \in now..MaxTime, authR \in RefreshResponses, r \in DataResponses(endpoint) :
        \E t2 \in t..MaxTime :
            LET out == ApiModel(variant, endpoint, kwargs, token, t, authR, t2, r)
                renews == out.sent # <<>> /\ out.sent[1] = "refresh_token"
                requests == out.sent # <<>> /\ out.sent[Len(out.sent)] = "data"
            IN  /\ last' = Call("api_model", token, t, IF renews THEN t2 ELSE t,
                                IF renews THEN authR ELSE NoResponse,
                                IF requests THEN r ELSE NoDataResponse(endpoint),
                                AuthOutcome(out.raised, out.cause, NoToken, FALSE, out.sent),
                                out.returned, out.bearer, NoCredentials,
                                AuthForm(variant, out.sent, token, NoCredentials))
                /\ now' = IF renews THEN t2 ELSE t
                /\ UNCHANGED <<fetchVars, token, other, retry, validated>>

RequestNext == get_auth_token \/ renew_auth_token \/ api_model

RequestSpec == RequestInit /\ [][RequestNext]_vars

\* ------------------------------------------------------ two sequences
\* Two sequences of one caller, created with the same AuthToken and pulled in
\* any interleaving. The first is the sequence of Spec; the second runs the
\* same code on its own generator frame: the kwargs dict its endpoint function
\* built, its own json local.
MaxOtherCalls == 1
PairEndpoints == {"get_bookmark_tags"}

\* What the server answers the second sequence: another status, or a page of
\* one record that continues the chain.
OtherResponses(e) ==
    {r \in Responses(e) :
        /\ r.outcome = "http"
        /\ \/ r.status # ExpectedCode
           \/ /\ r.list = [type |-> "list", len |-> 1]
              /\ r.next.kind = "url"
              /\ r.next.query = Uniform(e, <<"42">>)}

PairInit ==
    /\ variant \in Variants
    /\ endpoint \in PairEndpoints
    /\ offset = NoneVal
    /\ kwargs = InitKwargs(variant, endpoint, offset)
    /\ json = FirstRunJson(endpoint)
    /\ pc = "INITIAL"
    /\ idx = 0
    /\ yielded = <<>>
    /\ callCount = 0
    /\ cancelled = FALSE
    /\ err = NoErr
    /\ now = 0
    /\ token = [access_token |-> "access", refresh_token |-> "refresh",
                ttl |-> MaxTime, expires_at |-> MaxTime]
    /\ served = 0
    /\ terminalSeen = FALSE
    /\ chainLen = 0
    /\ malformedSeen = FALSE
    /\ last = NoCall(endpoint)
    /\ other = OtherInit(variant)
    /\ retry = NoRetry
    /\ validated = NoValidation

\* Variation: the two sequences work on one kwargs dict, so the continuation
\* the second one merges shows in the first one's kwargs.
other_pull_SharedKwargs ==
    /\ other.pc \in {"INITIAL", "SUSPENDED"}
    /\ LoopCond(other.json)
    /\ other.callCount < MaxOtherCalls
    /\ \E t \in now..MaxTime, refreshOk \in BOOLEAN, r \in OtherResponses(other.endpoint) :
         LET out == LoopBody(variant, other.endpoint, other.kwargs, token, t,
                             refreshOk, r, other.yielded)
             ok == out.raised = "none" /\ PageCheck(variant, out.json) = "none"
         IN  /\ other' = [other EXCEPT
                            !.kwargs = out.kwargs,
                            !.json = IF out.received THEN out.json ELSE @,
                            !.pc = IF ok THEN "SUSPENDED" ELSE "FAILED",
                            !.yielded = IF ok THEN @ + 1 ELSE @,
                            !.callCount = @ + 1]
             /\ kwargs' = [k \in DOMAIN kwargs |->
                             IF k \in DOMAIN out.kwargs THEN out.kwargs[k] ELSE kwargs[k]]
             /\ now' = t
    /\ UNCHANGED <<variant, endpoint, offset, json, pc, idx, yielded, callCount,
                   cancelled, err, token, served, terminalSeen, chainLen,
                   malformedSeen, last, retry, validated>>

\* The consumer of the second sequence calls next() on it: its generator runs
\* one pass of _call_api's loop with its own kwargs and json and the shared
\* token, and stops at the yield of the page's record or on an exception.
other_pull ==
    /\ other.pc \in {"INITIAL", "SUSPENDED"}
    /\ LoopCond(other.json)
    /\ other.callCount < MaxOtherCalls
    /\ \E t \in now..MaxTime, refreshOk \in BOOLEAN, r \in OtherResponses(other.endpoint) :
         LET out == LoopBody(variant, other.endpoint, other.kwargs, token, t,
                             refreshOk, r, other.yielded)
             ok == out.raised = "none" /\ PageCheck(variant, out.json) = "none"
         IN  /\ other' = [other EXCEPT
                            !.kwargs = out.kwargs,
                            !.json = IF out.received THEN out.json ELSE @,
                            !.pc = IF ok THEN "SUSPENDED" ELSE "FAILED",
                            !.yielded = IF ok THEN @ + 1 ELSE @,
                            !.callCount = @ + 1]
             /\ now' = t
    /\ UNCHANGED <<variant, endpoint, offset, kwargs, json, pc, idx, yielded,
                   callCount, cancelled, err, token, served, terminalSeen, chainLen,
                   malformedSeen, last, retry, validated>>

PairNext == Pull \/ call_api \/ Cancel \/ other_pull

PairSpec == PairInit /\ [][PairNext]_vars

\* ------------------------------------------------------- retried calls
\* A function decorated with retry(times, on_exceptions) is called once.
MaxTimes == 3

RetryInit ==
    /\ variant = "pixivpy"
    /\ endpoint = "get_bookmark_tags"
    /\ offset = NoneVal
    /\ kwargs = InitKwargs(variant, endpoint, offset)
    /\ json = FirstRunJson(endpoint)
    /\ pc = "INITIAL"
    /\ idx = 0
    /\ yielded = <<>>
    /\ callCount = 0
    /\ cancelled = FALSE
    /\ err = NoErr
    /\ now = 0
    /\ token = [access_token |-> "access", refresh_token |-> "refresh",
                ttl |-> MaxTime, expires_at |-> MaxTime]
    /\ served = 0
    /\ terminalSeen = FALSE
    /\ chainLen = 0
    /\ malformedSeen = FALSE
    /\ last = NoCall(endpoint)
    /\ other = OtherInit(variant)
    /\ retry \in {Wrapper(n, s) : n \in 0..MaxTimes, s \in SUBSET ExceptionClasses}
    /\ validated = NoValidation

\* The wrapper is entered: raised = [], and the loop starts; with times = 0
\* the loop has no pass and raised.pop() fails on the empty list.
retry_wrapper ==
    /\ retry.pc = "created"
    /\ retry' = IF retry.times = 0
                THEN [retry EXCEPT !.pc = "raised", !.error = Exc("IndexError", 0)]
                ELSE [retry EXCEPT !.pc = "loop"]
    /\ UNCHANGED <<fetchVars, now, token, last, other, validated>>

\* A pass of the loop: function(*args, **kwargs) returns.
function_returns ==
    /\ retry.pc = "loop"
    /\ retry' = RetryReturn(retry)
    /\ UNCHANGED <<fetchVars, now, token, last, other, validated>>

\* A pass of the loop: function(*args, **kwargs) raises.
function_raises ==
    /\ retry.pc = "loop"
    /\ \E type \in Raisable : retry' = RetryRaise(retry, type)
    /\ UNCHANGED <<fetchVars, now, token, last, other, validated>>

RetryNext == retry_wrapper \/ function_returns \/ function_raises

RetrySpec == RetryInit /\ [][RetryNext]_vars

\* ------------------------------------------------- validated responses
\* The helpers of common/validate.py called directly on a JSON object.
ValidateInit ==
    /\ variant = "pixiv"
    /\ endpoint = "get_bookmark_tags"
    /\ offset = NoneVal
    /\ kwargs = InitKwargs(variant, endpoint, offset)
    /\ json = FirstRunJson(endpoint)
    /\ pc = "INITIAL"
    /\ idx = 0
    /\ yielded = <<>>
    /\ callCount = 0
    /\ cancelled = FALSE
    /\ err = NoErr
    /\ now = 0
    /\ token = [access_token |-> "access", refresh_token |-> "refresh",
                ttl |-> MaxTime, expires_at |-> MaxTime]
    /\ served = 0
    /\ terminalSeen = FALSE
    /\ chainLen = 0
    /\ malformedSeen = FALSE
    /\ last = NoCall(endpoint)
    /\ other = OtherInit(variant)
    /\ retry = NoRetry
    /\ validated = NoValidation

\* validate.response_contains_key(res_json, key)
contains_key ==
    /\ \E res_json \in JsonDicts, key \in JsonKeys :
          validated' = Validation("response_contains_key", res_json, key, NoneVal,
                                  validate_response_contains_key(res_json, key))
    /\ UNCHANGED <<fetchVars, now, token, last, other, retry>>

\* validate.response_key_mapping(res_json, key, _type)
key_mapping ==
    /\ \E res_json \in JsonDicts, key \in JsonKeys, type \in PyTypes :
          validated' = Validation("response_key_mapping", res_json, key, type,
                                  validate_response_key_mapping(res_json, key, type))
    /\ UNCHANGED <<fetchVars, now, token, last, other, retry>>

ValidateNext == contains_key \/ key_mapping

ValidateSpec == ValidateInit /\ [][ValidateNext]_vars

\* ------------------------------------------------------------ vocabulary
\* The kwargs the endpoint function built from the caller's arguments.
InitialKwargs == InitKwargs(variant, endpoint, offset)

\* json holds a page received from the server (not the first_run dict).
Received == json.list.first >= 1

\* The page in json carries no continuation (next_url absent, null or "").
LastPageTerminal == Received /\ json.next.kind \in {"null", "empty"}

\* First non-blank value of a name in a query string.
FirstNonBlank(values) ==
    values[CHOOSE i \in 1..Len(values) :
              values[i] # "" /\ \A j \in 1..(i - 1) : values[j] = ""]

\* Every continuation name has a non-blank value in the query string.
Extractable(e, next) ==
    next.kind = "url" /\
    \A k \in KeySet(e) : \E i \in 1..Len(next.query[k]) : next.query[k][i] # ""

\* ------------------------------------------------------------------ claims
\* C1: once a page without continuation (next_url absent, null or "") has been
\* received, the sequence issues no further transport call.
C1_NoCallAfterTerminalPage == [][terminalSeen => callCount' = callCount]_vars

\* C2: termination: when the generator comes back to the top of its loop after
\* a page without continuation, with no error raised, it finishes (DONE)
\* instead of requesting again, so a finite chain of pages is exhausted after
\* finitely many transport calls.
C2_FiniteChainTerminates ==
    [][(pc = "LOOP" /\ LastPageTerminal) => pc' = "DONE"]_vars

\* C3: flattening: while only well-formed pages have been received, the records
\* yielded are exactly the records of the chain of pages, first page first and
\* in the server's order, none dropped, duplicated, reordered or added: the
\* yielded sequence is 1, 2, 3, ... and never goes beyond the records of the
\* chain (the pages up to the one without continuation).
C3_Flattening ==
    ~malformedSeen =>
        /\ yielded = [i \in 1..Len(yielded) |-> i]
        /\ Len(yielded) <= served
        /\ terminalSeen => Len(yielded) <= chainLen

\* C4 (as stated): after a page whose next_url is a URL, the next transport
\* call is made with, for every continuation name, the first value of that
\* name in the URL's query string.
C4_FirstValueOfQuery ==
    [][(callCount >= 1 /\ callCount' = callCount + 1 /\ json.next.kind = "url")
        => \A k \in KeySet(endpoint) : kwargs[k] = json.next.query[k][1]]_vars

\* C4 (amended): after a page whose next_url is a URL, the next transport call
\* is made with, for every continuation name, the first non-blank value of
\* that name in the URL's query string (blank values are dropped by the query
\* parser before the first one is taken).
C4_FirstNonBlankValueOfQuery ==
    [][(callCount >= 1 /\ callCount' = callCount + 1 /\ json.next.kind = "url")
        => \A k \in KeySet(endpoint) :
              kwargs[k] = FirstNonBlank(json.next.query[k])]_vars

\* A second call was made after a page whose URL gives the last continuation
\* name a blank value first and then "7": the call was made with "7".
C4_Witness ==
    /\ callCount = 2
    /\ pc = "FAILED"
    /\ err.origin = "status"
    /\ json.next.kind = "url"
    /\ json.next.query[LastKey(endpoint)] = <<"", "7">>
    /\ kwargs[LastKey(endpoint)] = "7"

\* C5 (as stated): when the first page lacks list_key the sequence fails with
\* the response-shape error, nothing yielded, and no second call follows.
C5_FirstPageShapeError ==
    [][/\ (callCount = 0 /\ callCount' = 1 /\ Received' /\ json'.list.type = "absent")
            => (pc' = "FAILED" /\ err'.origin = "shape" /\ yielded' = <<>>)
       /\ pc = "FAILED" => (callCount' = callCount /\ yielded' = yielded)]_vars

\* C5 (amended): when the first page lacks list_key the sequence fails before
\* any record is yielded and no second call follows; the error is the
\* response-shape error, unless the page's next_url is a URL lacking a value
\* for a continuation name, in which case the lookup of that name has already
\* failed and its error is the one raised.
C5_FirstPageFailsEagerly ==
    [][/\ (callCount = 0 /\ callCount' = 1 /\ Received' /\ json'.list.type = "absent")
            => /\ pc' = "FAILED"
               /\ yielded' = <<>>
               /\ err'.origin = IF ParsesNext(json'.next)
                                     /\ ~Extractable(endpoint, json'.next)
                                  THEN "continuation" ELSE "shape"
       /\ pc = "FAILED" => (callCount' = callCount /\ yielded' = yielded)]_vars

\* The first page lacked list_key: failed on its shape, one call, no record.
C5_Witness ==
    /\ callCount = 1
    /\ pc = "FAILED"
    /\ err.origin = "shape"
    /\ Received
    /\ json.list.type = "absent"
    /\ yielded = <<>>

\* C6: whenever a page maps list_key to something that is not a list (or lacks
\* it), the sequence has failed on the page's shape and nothing but records of
\* list pages has been yielded (no character of a string, no key of an object).
C6_MistypedPageYieldsNothing ==
    (Received /\ json.list.type # "list")
        => /\ pc = "FAILED"
           /\ \A i \in 1..Len(yielded) : yielded[i] >= 1

\* The page in json is a list page without records.
EmptyPage == Received /\ json.list.type = "list" /\ json.list.len = 0

\* C7: an empty page is not terminal: a page whose list is empty and whose
\* next_url is a URL with a value for every continuation name yields no record
\* and leaves the generator in its loop, and the generator's next step is
\* another transport call, made with the values extracted from that URL.
C7_EmptyPageContinues ==
    [][/\ (callCount' = callCount + 1 /\ pc' # "FAILED" /\ EmptyPage')
            => (pc' = "LOOP" /\ yielded' = yielded)
       /\ (pc = "LOOP" /\ EmptyPage /\ Extractable(endpoint, json.next))
            => /\ callCount' = callCount + 1
               /\ \A k \in KeySet(endpoint) :
                     kwargs[k] = FirstNonBlank(json.next.query[k])]_vars

\* The first page was empty and had a continuation: a second call was made
\* with the extracted value and its page's first record is the first yielded.
C7_Witness ==
    /\ callCount = 2
    /\ pc = "SUSPENDED"
    /\ yielded = <<1>>
    /\ json.list.first = 1
    /\ kwargs[FirstKey(endpoint)] = "42"

\* The page in json has a next_url that is present and non-empty but gives no
\* non-blank value to some continuation name.
MalformedContinuation ==
    /\ Received
    /\ json.next.kind \in {"url", FirstRun}
    /\ ~(KeySet(endpoint) \subseteq DOMAIN parse_qs(json.next.query))

\* C8: after a page whose non-empty next_url lacks a value for a continuation
\* name the sequence has failed, and no transport call follows.
C8_MalformedContinuationIsFatal ==
    [][MalformedContinuation => (pc = "FAILED" /\ callCount' = callCount)]_vars

C10_NoCallAfterCancel == [][cancelled => callCount' = callCount]_vars

\* The consumer stopped in the middle of a two-record page that has a
\* continuation URL.
C10_Witness ==
    /\ cancelled
    /\ pc = "SUSPENDED"
    /\ idx = 1
    /\ json.list.len = 2
    /\ json.next.kind = "url"

\* Every element of the page in json has been handed to the consumer.
PageExhausted == idx = Len(Elems(json))

\* C11 (as stated): a pull makes no transport call while the page has elements
\* left (it yields the next one), exactly one when the page is exhausted and
\* has a continuation, and never more than one: once a call has been made in
\* a pull (the generator is back in its loop with nothing yielded from the
\* page) no other call follows in that pull.
C11_AtMostOneCallPerPull ==
    [][/\ (pc = "SUSPENDED" /\ ~PageExhausted)
            => (callCount' = callCount /\ pc' = "SUSPENDED")
       /\ (pc = "LOOP" /\ Received /\ idx >= 1 /\ Extractable(endpoint, json.next))
            => callCount' = callCount + 1
       /\ (pc = "LOOP" /\ callCount >= 1 /\ idx = 0)
            => callCount' = callCount]_vars

\* C11 (amended): a pull makes no transport call while the page has elements
\* left, one call when the page is exhausted and has a continuation, and a
\* further call in the same pull only after a page that had no element to
\* yield.
C11_CallsPerPull ==
    [][/\ (pc = "SUSPENDED" /\ ~PageExhausted)
            => (callCount' = callCount /\ pc' = "SUSPENDED")
       /\ (pc = "LOOP" /\ Received /\ idx >= 1 /\ Extractable(endpoint, json.next))
            => callCount' = callCount + 1
       /\ (pc = "LOOP" /\ callCount >= 1 /\ idx = 0 /\ callCount' = callCount + 1)
            => (Received /\ Len(Elems(json)) = 0)]_vars

\* The pull that found the one-record first page exhausted made the second
\* call and came back with the first record of the second page.
C11_Witness ==
    /\ callCount = 2
    /\ pc = "SUSPENDED"
    /\ idx = 1
    /\ Len(yielded) = 2
    /\ json.list.first = 2

\* C12: no prefetch: a transport call is made only by the running generator
\* at the top of its loop, one at a time, after the previous call has returned
\* its page and every element of that page has been handed to the consumer
\* (while only well-formed pages were received: every record served so far).
C12_NoPrefetch ==
    [][callCount' # callCount
        => /\ callCount' = callCount + 1
           /\ pc = "LOOP"
           /\ PageExhausted
           /\ callCount >= 1 => Received
           /\ ~malformedSeen => Len(yielded) = served]_vars

\* The second call was made after both records of the first page had been
\* handed over; it failed on its status.
C12_Witness ==
    /\ callCount = 2
    /\ pc = "FAILED"
    /\ err.origin = "status"
    /\ json.list.len = 2
    /\ idx = 2
    /\ yielded = <<1, 2>>

\* Every (cause, origin) a fetch sequence of revision v raises once the request
\* model has accepted its arguments, as the consumer sees it.
Failures(v) ==
    {Raise(v, AuthFailure(v), "auth"), Raise(v, "RequestException", "transport"),
     Raise(v, "InvalidStatusCode", "status"), Raise(v, "KeyError", "continuation")}
    \cup {Raise(v, PageCheck(v, [list |-> l]), "shape") :
            l \in {x \in ListVals : PageCheck(v, [list |-> x]) # "none"}}

\* C13: every failure a fetch sequence surfaces is an error of the library's
\* family, and its type tells the kind of its cause (authentication,
\* transport, response shape, continuation): no failure of another kind is
\* surfaced with the same type.
C13_ErrorTaxonomy ==
    LET Kind(origin) ==
            CASE origin = "auth" -> "AuthenticationFailed"
              [] origin \in {"transport", "status"} -> "TransportFailed"
              [] origin = "shape" -> "InvalidResponseShape"
              [] origin = "continuation" -> "MalformedContinuation"
              [] OTHER -> "none"
    IN  (pc = "FAILED" /\ err.origin # "kwargs")
            => /\ err.type \in LibraryErrors
               /\ \A f \in Failures(variant) :
                     f.type = err.type => Kind(f.origin) = Kind(err.origin)

\* The last call sent its token exchange / its data request and the HTTP
\* collaborator answered with a status.
ExchangeAnswered == last.response.outcome = "http"
DataAnswered == last.data.outcome = "http"

C15_TransportFailureClassified ==
    (pc = "FAILED" /\ err.origin = "transport") => err.type \in LibraryErrors

\* Requests a call may send: nothing, one token exchange, one data request,
\* or a refresh followed by the data request.
SingleAttempts ==
    {<<>>, <<"password">>, <<"refresh_token">>, <<"data">>, <<"refresh_token", "data">>}

\* C16: no automatic retry: a call of get_auth_token, renew_auth_token or a
\* request model sends each of its requests once at most, and one that fails
\* on transport (the collaborator failed or answered another status than 200)
\* is surfaced with the failed request sent exactly once and last.
C16_NoRetry ==
    /\ last.sent \in SingleAttempts
    /\ last.cause \in {"RequestException", "InvalidStatusCode"}
        => /\ last.raised # "none"
           /\ last.sent # <<>>
           /\ last.name = "get_auth_token" => last.sent = <<"password">>
           /\ last.name = "renew_auth_token" => last.sent = <<"refresh_token">>
           /\ last.name = "api_model"
                => last.sent \in {<<"refresh_token">>, <<"data">>,
                                  <<"refresh_token", "data">>}

\* The refresh of an expired token failed in the HTTP collaborator: one
\* refresh request was sent.
C16_Witness ==
    /\ last.name = "renew_auth_token"
    /\ last.cause = "RequestException"
    /\ last.raised # "none"
    /\ last.sent = <<"refresh_token">>

\* The last call was renew_auth_token and it sent the refresh exchange.
Refreshed == last.name = "renew_auth_token" /\ last.sent = <<"refresh_token">>

C18_RefreshedExpiresLater ==
    (Refreshed /\ last.raised = "none")
        => last.token.expires_at > last.input.expires_at

C21_InvalidExchangeFails ==
    (/\ last.name \in {"get_auth_token", "renew_auth_token"}
     /\ last.sent # <<>>
     /\ ExchangeAnswered
     /\ (last.response.status # ExpectedCode
         \/ ~validate_auth_response(last.response.body)))
        => (last.raised = AuthFailure(variant) /\ last.token = NoToken)

\* C22 as stated: every AuthToken in the system, the ones constructed with an
\* explicit expires_at included, has expires_at equal to an issuance instant
\* plus ttl, the issuance instant not being later than the current time.
C22_EveryTokenConsistent ==
    /\ token.expires_at - token.ttl <= now
    /\ last.token # NoToken => last.token.expires_at - last.token.ttl <= now

\* C22: a token built without an explicit expires_at, as get_auth_token and a
\* refreshing renew_auth_token build it, has expires_at equal to the clock
\* value read at construction plus ttl; a token that carries an explicit
\* expires_at keeps that value as given when renew_auth_token returns it.
C22_ConstructedTokenExpiresAfterTtl ==
    /\ (/\ last.name \in {"get_auth_token", "renew_auth_token"}
        /\ last.sent # <<>>
        /\ last.raised = "none")
           => last.token.expires_at = last.t2 + last.token.ttl
    /\ (last.name = "renew_auth_token" /\ last.sent = <<>>)
           => last.token.expires_at = last.input.expires_at

C22_Witness ==
    /\ last.name = "get_auth_token"
    /\ last.raised = "none"
    /\ last.t2 = 1
    /\ last.token.ttl = 2
    /\ last.token.expires_at = 3

\* The last direct call was a request model that sent its data request.
DataSent ==
    /\ last.name = "api_model"
    /\ last.sent # <<>>
    /\ last.sent[Len(last.sent)] = "data"

\* C23: every data request a request model sends follows the expiry check of
\* the token passed in and carries, as its bearer, the access token of the
\* token that check returned: the refreshed one when the token passed in had
\* expired (never the expired one), the token passed in otherwise.
C23_BearerOfCheckedToken ==
    DataSent =>
        IF Expired(last.t, last.input)
        THEN /\ last.sent = <<"refresh_token", "data">>
             /\ last.bearer = last.response.body.access_token.str
             /\ last.bearer # last.input.access_token
        ELSE /\ last.sent = <<"data">>
             /\ last.bearer = last.input.access_token

C23_Witness ==
    /\ DataSent
    /\ Expired(last.t, last.input)
    /\ last.bearer = "A1"
    /\ last.returned

\* This step made a request and received its page (now in json').
PageReceivedNow ==
    /\ callCount' = callCount + 1
    /\ err'.origin \notin {"kwargs", "auth", "transport", "status"}

\* The records of the page in json have all been handed to the consumer.
PageEmitted ==
    json.list.type = "list" =>
        \A i \in DOMAIN Elems(json) : Elems(json)[i] \in Range(yielded)

\* C25 (as stated): the continuation of a page is extracted (kwargs written,
\* or the malformed-continuation error raised) only after the records of that
\* page have been emitted.
C25_ExtractionAfterEmission ==
    [][(kwargs' # kwargs \/ (err'.origin = "continuation" /\ err' # err))
        => PageEmitted']_vars

\* C25 (amended): the continuation of a page is extracted as soon as the page
\* is received, before any of its records is emitted: if a continuation name
\* has no value the sequence fails there with none of the page's records
\* emitted, otherwise kwargs already holds the next page's parameters when
\* the first record of the page is handed over.
C25_ExtractionBeforeEmission ==
    [][(PageReceivedNow /\ ParsesNext(json'.next)) =>
        IF KeySet(endpoint) \subseteq DOMAIN parse_qs(json'.next.query)
        THEN /\ \A k \in KeySet(endpoint) :
                    kwargs'[k] = FirstOf(parse_qs(json'.next.query)[k])
             /\ Len(yielded') <= Len(yielded) + 1
        ELSE /\ pc' = "FAILED"
             /\ err'.origin = "continuation"
             /\ yielded' = yielded]_vars

C25_Witness ==
    /\ pc = "FAILED"
    /\ err.origin = "continuation"
    /\ json.list = [type |-> "list", len |-> 1, first |-> 1]
    /\ yielded = <<>>
    /\ callCount = 1

\* C26: for each endpoint the kwargs handed to the request model, on the first
\* request and on every request after a continuation merge, name exactly
\* parameters the model accepts and all the ones it requires: the model is
\* never refused its arguments.
C26_KwargsAccepted ==
    [][callCount' = callCount + 1 => AcceptsKwargs(endpoint, kwargs)]_vars

\* C27: the continuation merge writes only the entries named by the endpoint's
\* continuation keys: every other argument (auth token, user id, restrict,
\* filter, category, ...) is, at every request, the one the endpoint function
\* built from the caller's arguments.
C27_MergeFrame ==
    /\ DOMAIN InitialKwargs \subseteq DOMAIN kwargs
    /\ \A k \in DOMAIN kwargs \ KeySet(endpoint) :
          k \in DOMAIN InitialKwargs /\ kwargs[k] = InitialKwargs[k]

C27_Witness ==
    /\ callCount = 2
    /\ kwargs # InitialKwargs
    /\ KeySet(endpoint) # DOMAIN kwargs
    /\ pc = "SUSPENDED"

\* The last direct call was a request model whose token had expired and was
\* refreshed, the data request following.
RenewedInModel ==
    /\ last.name = "api_model"
    /\ last.sent = <<"refresh_token", "data">>

\* C28: once a request model has refreshed the expired token, the request
\* models called next with the same kwargs use the renewed token: they send
\* no further refresh as long as the renewed token has not expired.
C28_RenewedTokenReused ==
    [][(/\ RenewedInModel
        /\ last'.name = "api_model"
        /\ last'.t < last.t2 + last.response.body.expires_in.int)
           => (last'.sent # <<>> => last'.sent[1] # "refresh_token")]_vars

\* The last direct call was a request model whose refresh exchange was
\* answered with a failure: the transport raised, the status was not 200, or
\* the auth body was malformed.
RefreshFailedInModel ==
    /\ last.name = "api_model"
    /\ last.sent # <<>>
    /\ last.sent[1] = "refresh_token"
    /\ \/ last.response.outcome = "raise"
       \/ last.response.status # ExpectedCode
       \/ ~validate_auth_response(last.response.body)

\* C29: when the token has expired and the refresh exchange fails (transport
\* failure, bad status or malformed auth body), the request model raises
\* without sending the data request: nothing is returned for that page.
C29_RefreshFailurePrecludesData ==
    RefreshFailedInModel =>
        /\ last.sent = <<"refresh_token">>
        /\ last.raised # "none"
        /\ ~last.returned

\* C30: errors are terminal: once the sequence has raised, it stays failed
\* with the same error; no pull yields a record or makes a transport call.
C30_ErrorsAreTerminal ==
    [][pc = "FAILED" =>
        /\ pc' = "FAILED"
        /\ err' = err
        /\ yielded' = yielded
        /\ callCount' = callCount]_vars

C30_Witness ==
    /\ pc = "FAILED"
    /\ err.origin = "status"
    /\ callCount = 1
    /\ callCount < MaxCalls
    /\ ~cancelled

\* C24: two sequences created with the same AuthToken and pulled in any
\* interleaving are independent: a step of one leaves the other's kwargs,
\* json, position, calls and records as they are, and no step of either
\* changes the token they share.
C24_SequencesIndependent ==
    [][/\ other' # other => UNCHANGED fetchVars
       /\ fetchVars' # fetchVars => other' = other
       /\ token' = token]_vars

C24_Witness ==
    /\ pc = "SUSPENDED"
    /\ other.pc = "SUSPENDED"
    /\ callCount = 1
    /\ other.callCount = 1
    /\ kwargs["offset"] # other.kwargs["offset"]

\* C31: creating a fetch sequence is lazy: as long as the sequence has not
\* been pulled no transport call has been made, the clock has not been read
\* for an expiry check and nothing was received, and no step makes a call or
\* reads the clock from there: the first network activity follows the first
\* pull.
C31_LazyCreation ==
    [][pc = "INITIAL" =>
        /\ callCount = 0 /\ now = 0 /\ served = 0
        /\ json = FirstRunJson(endpoint) /\ kwargs = InitialKwargs
        /\ callCount' = callCount /\ now' = now /\ served' = served]_vars

C31_Witness ==
    /\ pc = "SUSPENDED"
    /\ callCount = 1
    /\ now = 1
    /\ yielded = <<1>>
    /\ ~cancelled

\* The continuation names an endpoint starts without a value of the caller's
\* choosing when no offset is given (mode and filter of get_rankings are the
\* caller's arguments).
CursorKeys(e) == (KeySet(e) \ {"mode", "filter"}) \cap DOMAIN InitKwargs("pixiv", e, NoneVal)

\* C32: when the caller supplies no offset, the first transport call carries
\* every continuation-populated parameter as None (start from the beginning),
\* never as a non-empty placeholder.
C32_InitialCursorIsNone ==
    [][(callCount = 0 /\ callCount' = 1 /\ offset = NoneVal)
        => \A k \in CursorKeys(endpoint) : kwargs[k] = NoneVal]_vars

\* C33: the login exchange sends grant type 'password' with the caller's
\* username and password; the renewal exchange sends grant type
\* 'refresh_token' with a refresh_token field equal to the refresh_token
\* string of the token being renewed.
C33_ExchangeForms ==
    /\ last.name = "get_auth_token" =>
          /\ last.form.grant_type = "password"
          /\ last.form.username = last.cred[1]
          /\ last.form.password = last.cred[2]
    /\ (last.sent # <<>> /\ last.sent[1] = "refresh_token") =>
          /\ last.form.grant_type = "refresh_token"
          /\ last.form.refresh_token = last.input.refresh_token

\* The wrapper has returned or raised.
RetryDone == retry.pc \in {"returned", "raised"}

\* Every invocation made raised an exception whose class is listed.
AllListed == \A i \in 1..Len(retry.log) : retry.log[i] \in retry.on_exceptions

\* C34: retry(times, on_exceptions) with times >= 1: the function is invoked
\* at most `times` times; the wrapper returns the result of the first
\* invocation that succeeds, which is the last invocation made; if all
\* `times` invocations raise listed exceptions the wrapper raises the
\* exception of the last invocation, after exactly `times` invocations.
C34_RetryAtMostTimes ==
    retry.times >= 1 =>
        /\ retry.calls <= retry.times
        /\ retry.calls = Len(retry.log)
        /\ retry.pc = "returned" =>
              /\ retry.result = retry.calls
              /\ retry.log[retry.calls] = "return"
              /\ \A i \in 1..(retry.calls - 1) : retry.log[i] # "return"
        /\ \A i \in 1..(Len(retry.log) - 1) : retry.log[i] # "return"
        /\ (Len(retry.log) = retry.times /\ AllListed) =>
              /\ retry.pc = "raised"
              /\ retry.error = Exc(retry.log[retry.times], retry.times)
              /\ retry.calls = retry.times

C34_Witness ==
    /\ retry.times = 3
    /\ retry.calls = 3
    /\ AllListed
    /\ retry.log[1] # retry.log[3]
    /\ retry.pc = "raised"

\* The last invocation raised an exception of class type.
LastRaised == IF retry.log = <<>> THEN NoneVal ELSE retry.log[Len(retry.log)]

\* C35 (as stated): the function is retried if and only if it raises an
\* exception listed in on_exceptions; when an invocation raises any exception
\* that is not listed the wrapper raises RetryError at once, with no further
\* invocation.
C35_UnlistedGivesRetryError ==
    /\ \A i \in 1..(Len(retry.log) - 1) : retry.log[i] \in retry.on_exceptions
    /\ (RetryDone /\ LastRaised \in retry.on_exceptions) => retry.calls = retry.times
    /\ (LastRaised \in Raisable \ retry.on_exceptions) =>
          /\ retry.pc = "raised"
          /\ retry.error = Exc("RetryError", retry.calls)

\* C35 (amended): the function is retried if and only if it raises an
\* exception whose class is listed and passes remain; an exception derived
\* from Exception whose class is not listed makes the wrapper raise
\* RetryError at once, and one that is not derived from Exception leaves the
\* wrapper as it is, at once as well; no further invocation in either case.
C35_UnlistedEndsTheCall ==
    /\ \A i \in 1..(Len(retry.log) - 1) : retry.log[i] \in retry.on_exceptions
    /\ (RetryDone /\ LastRaised \in retry.on_exceptions) => retry.calls = retry.times
    /\ (LastRaised \in ExceptionClasses \ retry.on_exceptions) =>
          /\ retry.pc = "raised"
          /\ retry.error = Exc("RetryError", retry.calls)
    /\ (LastRaised \in BaseOnly) =>
          /\ retry.pc = "raised"
          /\ retry.error = Exc(LastRaised, retry.calls)

C35_Witness ==
    /\ retry.times = 3
    /\ retry.calls = 2
    /\ retry.on_exceptions = {"PixivpyError"}
    /\ retry.log = <<"PixivpyError", "InvalidStatusCode">>
    /\ retry.error.type = "RetryError"

\* The last helper call was made with a key that res_json holds.
KeyPresent == validated.key \in DOMAIN validated.res_json

\* C36 (as stated): response_contains_key raises DataNotFound if and only if
\* key is not a key of json; response_key_mapping raises DataNotFound if and
\* only if the value mapped to key is not of type T, and returns normally
\* otherwise; neither modifies json.
C36_HelpersRaiseDataNotFound ==
    /\ validated.after = validated.res_json
    /\ validated.fn = "response_contains_key" =>
          validated.raised = (IF KeyPresent THEN "none" ELSE "DataNotFound")
    /\ validated.fn = "response_key_mapping" =>
          validated.raised =
              (IF KeyPresent /\ validated.res_json[validated.key] = validated.type
               THEN "none" ELSE "DataNotFound")

\* C36 (amended): response_contains_key raises DataNotFound if and only if
\* key is not a key of json; for a key of json response_key_mapping raises
\* DataNotFound if and only if the type of the value mapped to key is not T,
\* and for a key that json does not hold it raises KeyError; both return
\* normally otherwise, and neither modifies json.
C36_HelpersAssumeKey ==
    /\ validated.after = validated.res_json
    /\ validated.fn = "response_contains_key" =>
          validated.raised = (IF KeyPresent THEN "none" ELSE "DataNotFound")
    /\ validated.fn = "response_key_mapping" =>
          validated.raised =
              (IF ~KeyPresent THEN "KeyError"
               ELSE IF validated.res_json[validated.key] = validated.type THEN "none"
               ELSE "DataNotFound")

C36_Witness ==
    /\ validated.fn = "response_key_mapping"
    /\ validated.res_json = [k \in {"the_key"} |-> "int"]
    /\ validated.key = "the_key"
    /\ validated.type = "list"
    /\ validated.raised = "DataNotFound"

====
